---- MODULE Spec2Model ----
(***************************************************************************)
(* Planning-poker bot (src/pokerplan.py): the three SQLite tables, the     *)
(* handlers that read and write them, and the messages each handler sends. *)
(* A table is the set of its rows; a SELECT ... WHERE session_id = ? walks  *)
(* the index of PRIMARY KEY(session_id, user_id) and so returns the rows    *)
(* of a session by ascending user_id.  One action is one handler            *)
(* invocation, run to completion; the dispatcher then takes the next       *)
(* update (Spec).  SpecResults applies the reveal to the tables of one     *)
(* session with up to four users; SpecConc splits cb_vote and              *)
(* cmd_close_session at their awaits and interleaves them.                 *)
(***************************************************************************)
EXTENDS Integers, Sequences, FiniteSets, TLC

\* ------------------------------------------------------------------ bounds
\* Caps on the number of rows of session_members and of votes.
MaxMemberRows == 2
MaxVoteRows == 2

\* ------------------------------------------------------------ input domains
\* user_id INTEGER
Users == {1, 2}
\* values token_urlsafe(8) can return
SessionIds == {"s1", "s2"}
\* line 37
VOTE_OPTIONS == <<"0", "½", "1", "2", "3", "5", "8", "13", "20", "40", "100", "?">>
\* the third field of a callback "vote|<sid>|<value>": a card and a string
\* that is no card
CallbackValues == {"1", "7"}

\* the sets of users a handler may find unreachable
Downs == {{}, {1}}

\* Python's None where a row or a text is expected
None == <<>>
\* an absent string field
NoValue == "-"

VARIABLES
    sessions,         \* table sessions: set of rows, PRIMARY KEY(id)
    session_members,  \* table session_members: set of rows, PRIMARY KEY(session_id, user_id)
    votes,            \* table votes: set of rows, PRIMARY KEY(session_id, user_id)
    last,             \* the handler that ran last, its arguments and outcome
    sent,             \* the messages that handler sent, in order
    accepted,         \* history: value of the last set_vote per (session, user) since the last clear_votes
    revealed,         \* history: sessions whose results were broadcast at least once
    broadcast,        \* history: sessions whose results were broadcast since their voter or member set last changed
    tasks             \* the handler tasks in flight when updates are handled concurrently, each with its position and locals

vars == <<sessions, session_members, votes, last, sent, accepted, revealed, broadcast, tasks>>

\* ------------------------------------------------------------- sequences
Range(s) == {s[i] : i \in 1..Len(s)}

RECURSIVE Filter(_, _)
\* the elements of s that lie in the set keep, in order
Filter(s, keep) ==
    IF s = <<>> THEN <<>>
    ELSE IF Head(s) \in keep THEN <<Head(s)>> \o Filter(Tail(s), keep)
    ELSE Filter(Tail(s), keep)

RECURSIVE ByUserId(_)
\* the rows of a set in index order: ascending user_id
ByUserId(rows) ==
    IF rows = {} THEN <<>>
    ELSE LET r == CHOOSE x \in rows : \A y \in rows : x.user_id <= y.user_id
         IN  <<r>> \o ByUserId(rows \ {r})

\* ------------------------------------------------------------ DB helpers
\* lines 113-120
get_session(S, sid) ==
    IF \E r \in S : r.id = sid THEN CHOOSE r \in S : r.id = sid ELSE None

\* lines 122-127
get_members(M, sid) == ByUserId({r \in M : r.session_id = sid})

\* lines 129-134
get_votes(V, sid) == ByUserId({r \in V : r.session_id = sid})

\* an INSERT of a row that is closed from the start
create_session_closed(S, sid, creator) ==
    S \cup {[id |-> sid, creator_id |-> creator, status |-> "closed"]}

\* lines 88-96: INSERT INTO sessions (called with an id that is not stored)
create_session(S, sid, creator) ==
    S \cup {[id |-> sid, creator_id |-> creator, status |-> "open"]}

\* lines 85-86: now_iso() as a logical time, one tick per membership row
now_iso(M) == Cardinality(M) + 1

\* an INSERT into a table without the primary key
add_member_insert(M, sid, u) ==
    M \cup {[session_id |-> sid, user_id |-> u, joined_at |-> now_iso(M)]}

\* lines 98-104: INSERT OR IGNORE on PRIMARY KEY(session_id, user_id)
add_member(M, sid, u) ==
    IF \E r \in M : r.session_id = sid /\ r.user_id = u
    THEN M
    ELSE M \cup {[session_id |-> sid, user_id |-> u, joined_at |-> now_iso(M)]}

\* a plain INSERT that keeps the conflicting row
set_vote_insert(V, sid, u, value) ==
    V \cup {[session_id |-> sid, user_id |-> u, value |-> value]}

\* lines 106-111: INSERT OR REPLACE on PRIMARY KEY(session_id, user_id)
set_vote(V, sid, u, value) ==
    {r \in V : ~(r.session_id = sid /\ r.user_id = u)}
        \cup {[session_id |-> sid, user_id |-> u, value |-> value]}

\* a DELETE without its WHERE clause
clear_votes_all(V, sid) == {}

\* lines 136-139: DELETE FROM votes WHERE session_id = ?
clear_votes(V, sid) == {r \in V : r.session_id # sid}

\* an UPDATE that flips a closed session back
set_session_status_toggle(S, sid, status) ==
    {IF r.id = sid
     THEN [r EXCEPT !.status = IF r.status = "closed" THEN "open" ELSE status]
     ELSE r : r \in S}

\* lines 141-144: UPDATE sessions SET status = ? WHERE id = ?
set_session_status(S, sid, status) ==
    {IF r.id = sid THEN [r EXCEPT !.status = status] ELSE r : r \in S}

\* ------------------------------------------------------------- messages
\* bot.send_message / message.reply / edit_text: one delivery attempt; down is
\* the set of users Telegram cannot deliver to while this handler runs
send_message(to, kind, text, down) ==
    [to |-> to, kind |-> kind, text |-> text, ok |-> to \notin down]

voter_ids(V, sid) == {r.user_id : r \in {x \in V : x.session_id = sid}}
member_ids(M, sid) == {r.user_id : r \in {x \in M : x.session_id = sid}}

\* the value votes holds for (sid, u), if any
stored(V, sid, u) ==
    IF \E r \in V : r.session_id = sid /\ r.user_id = u
    THEN (CHOOSE r \in V : r.session_id = sid /\ r.user_id = u).value
    ELSE NoValue

\* ------------------------------------------------------- Results helper
\* float(val) in units of one half, lines 162-169: "?" is skipped, "½" is 0.5,
\* a decimal literal is its value, any other string raises and is skipped
IsNumeric(val) ==
    val \in {"0", "½", "1", "2", "3", "5", "7", "8", "13", "20", "40", "100"}

Halves(val) ==
    CASE val = "0" -> 0
      [] val = "½" -> 1
      [] val = "1" -> 2
      [] val = "2" -> 4
      [] val = "3" -> 6
      [] val = "5" -> 10
      [] val = "7" -> 14
      [] val = "8" -> 16
      [] val = "13" -> 26
      [] val = "20" -> 40
      [] val = "40" -> 80
      [] val = "100" -> 200

RECURSIVE numeric_values(_)
\* lines 157-169, over the vote rows vs
numeric_values(vs) ==
    IF vs = <<>> THEN <<>>
    ELSE IF IsNumeric(Head(vs).value)
         THEN <<Halves(Head(vs).value)>> \o numeric_values(Tail(vs))
         ELSE numeric_values(Tail(vs))

RECURSIVE Insert(_, _)
Insert(x, sorted) ==
    IF sorted = <<>> THEN <<x>>
    ELSE IF x <= Head(sorted) THEN <<x>> \o sorted
    ELSE <<Head(sorted)>> \o Insert(x, Tail(sorted))

RECURSIVE Sorted(_)
Sorted(s) == IF s = <<>> THEN <<>> ELSE Insert(Head(s), Sorted(Tail(s)))

RECURSIVE Sum(_)
Sum(s) == IF s = <<>> THEN 0 ELSE Head(s) + Sum(Tail(s))

\* statistics.mean then "{mean:.2f}", line 180 and 182: hundredths, the tie
\* rounded to even
mean(nums) ==
    LET n == Len(nums)
        q == (50 * Sum(nums)) \div n
        r == (50 * Sum(nums)) % n
    IN  IF 2 * r < n THEN q
        ELSE IF 2 * r > n THEN q + 1
        ELSE IF q % 2 = 0 THEN q ELSE q + 1

\* the lower of the two middle elements for an even count
median_low(nums) ==
    LET d == Sorted(nums)
        n == Len(d)
    IN  2 * d[(n + 1) \div 2]

\* statistics.median, line 181: in units of one quarter
median(nums) ==
    LET d == Sorted(nums)
        n == Len(d)
    IN  IF n % 2 = 1 THEN 2 * d[(n \div 2) + 1]
        ELSE d[n \div 2] + d[(n \div 2) + 1]

\* lines 156-160 and 173-175: the lines "<opt> — <count>" in VOTE_OPTIONS order
counts(vs, opt) == Cardinality({i \in 1..Len(vs) : vs[i].value = opt})

RECURSIVE count_lines(_, _)
count_lines(vs, opts) ==
    IF opts = <<>> THEN <<>>
    ELSE IF counts(vs, Head(opts)) > 0
         THEN <<<<Head(opts), counts(vs, Head(opts))>>>> \o count_lines(vs, Tail(opts))
         ELSE count_lines(vs, Tail(opts))

\* lines 192-198: the members without a vote, in get_members order, each by
\* its display name (username, first name or id: here the user id)
not_voted(ms, vs) ==
    LET voted_ids == {vs[i].user_id : i \in 1..Len(vs)}
        rest == Filter(ms, {m \in Range(ms) : m.user_id \notin voted_ids})
    IN  [i \in 1..Len(rest) |-> rest[i].user_id]

\* a failed delivery that ends the loop
after_attempt_raise(m, rest) == IF m.ok THEN rest ELSE <<>>

\* lines 209-211: the except clause logs the failure, and the loop goes on
\* with the attempts rest to the members that follow
after_attempt(m, rest) == rest

RECURSIVE broadcast_results(_, _, _)
\* lines 202-211: one send_message per member, in get_members order
broadcast_results(ms, text, down) ==
    IF ms = <<>> THEN <<>>
    ELSE LET m == send_message(Head(ms).user_id, "results", text, down)
         IN  <<m>> \o after_attempt(m, broadcast_results(Tail(ms), text, down))

\* lines 171-200: result_text
result_text(sid, ms, vs) ==
    LET nums == numeric_values(vs)
    IN  [session_id |-> sid,
         lines |-> count_lines(vs, VOTE_OPTIONS),
         total |-> Len(vs),
         stats_lines |-> IF nums = <<>> THEN <<>> ELSE <<mean(nums), median(nums)>>,
         not_voted |-> not_voted(ms, vs)]

\* lines 147-213: the text, or None, and the delivery attempts made
compose_and_broadcast_results(S, M, V, sid, down) ==
    LET session == get_session(S, sid)
        vs == get_votes(V, sid)
        ms == get_members(M, sid)
        text == result_text(sid, ms, vs)
    IN  IF session = None \/ vs = <<>>
        THEN [text |-> None, sent |-> <<>>]
        ELSE [text |-> text, sent |-> broadcast_results(ms, text, down)]

\* a test that never fails
not_open_never(session) == FALSE

\* lines 313, 338, 425: session["status"] != "open"
not_open(session) == session.status # "open"

\* a test that never fails
not_creator_never(u, session) == FALSE

\* lines 387, 404, 429, 476, 511: from_user.id != session["creator_id"]
not_creator(u, session) == u # session.creator_id

\* lines 363-366: members and len(unique_voters) == len(members)
all_voted(M, V, sid) ==
    LET members == get_members(M, sid)
        unique_voters == voter_ids(V, sid)
    IN  members # <<>> /\ Cardinality(unique_voters) = Len(members)

\* lines 360-367: the automatic reveal of cb_vote, V the votes after set_vote
auto_reveal(S, M, V, sid, down) ==
    IF get_session(S, sid).status = "open" /\ all_voted(M, V, sid)
    THEN compose_and_broadcast_results(S, M, V, sid, down)
    ELSE [text |-> None, sent |-> <<>>]

\* lines 344-373: what cb_vote sends once the vote is stored as V and the
\* edit_text succeeded
vote_sent(S, M, V, sid, u, value, down) ==
    LET auto == auto_reveal(S, M, V, sid, down)
    IN  <<send_message(u, "confirm", [value |-> value], {})>>
        \o auto.sent
        \o IF auto.text # None
           THEN <<send_message(get_session(S, sid).creator_id, "auto_reveal",
                               [session_id |-> sid], down)>>
           ELSE <<>>

\* lines 529-533: the reply of cmd_session
session_sent(S, M, V, sid, u) ==
    LET session == get_session(S, sid)
    IN  <<send_message(u, "details",
            [session_id |-> sid, status |-> session.status,
             creator |-> session.creator_id,
             members |-> Len(get_members(M, sid)),
             votes |-> Len(get_votes(V, sid))], {})>>

\* lines 487-490: one row per vote
export_rows(V, sid) ==
    LET vs == get_votes(V, sid)
    IN  [i \in 1..Len(vs) |-> <<vs[i].user_id, vs[i].value>>]

\* lines 479-492: the reply of cmd_export
export_sent(S, M, V, sid, u) ==
    <<send_message(u, "export", [rows |-> export_rows(V, sid)], {})>>

\* event.command.args evaluated to the argument
command_args_found(sid) == <<sid>>

\* line 467: the values event.command.args evaluates to. The handler receives
\* the Message alone (no CommandObject parameter, unlike lines 274, 501, 519)
\* and a Message has no attribute "command": the access raises AttributeError
command_args(sid) == <<>>

\* lines 467-478: where cmd_export ends
export_outcome(S, sid, u) ==
    LET args == command_args(sid)
        session == get_session(S, args[1])
    IN  IF args = <<>> THEN "Exception"
        ELSE IF session = None THEN "NotFound"
        ELSE IF not_creator(u, session) THEN "Forbidden"
        ELSE "Ack"

\* lines 467-492: what cmd_export sends
export_reply(S, M, V, sid, u) ==
    IF export_outcome(S, sid, u) = "Ack"
    THEN export_sent(S, M, V, command_args(sid)[1], u)
    ELSE <<>>

\* ------------------------------------------------------------------ Init
Call(op, sid, u, value, outcome, prior) ==
    [op |-> op, sid |-> sid, uid |-> u, value |-> value,
     outcome |-> outcome, prior |-> prior]

\* no handler is running: the dispatcher waits for the next update
Idle == Call("idle", NoValue, 0, NoValue, NoValue, NoValue)

NoOne == [s \in SessionIds |-> [u \in Users |-> NoValue]]

\* after init_db on an empty database file, lines 46-78 and 537
Init ==
    /\ sessions = {}
    /\ session_members = {}
    /\ votes = {}
    /\ last = Idle
    /\ sent = <<>>
    /\ accepted = NoOne
    /\ revealed = {}
    /\ broadcast = {}
    /\ tasks = <<>>

\* a handler that returns without writing a table
Return(op, sid, u, value, outcome, msgs) ==
    /\ last' = Call(op, sid, u, value, outcome, stored(votes, sid, u))
    /\ sent' = msgs
    /\ UNCHANGED <<sessions, session_members, votes, accepted, revealed, broadcast>>

\* -------------------------------------------------------------- Commands
\* lines 273-287; make_session_id draws sid, and an id that is already stored
\* makes the INSERT of create_session raise
cmd_new_session(sid, u, down) ==
    IF get_session(sessions, sid) # None
    THEN Return("new_session", sid, u, NoValue, "StorageFailure", <<>>)
    ELSE /\ Cardinality(add_member(session_members, sid, u)) <= MaxMemberRows
         /\ sessions' = create_session(sessions, sid, u)
         /\ session_members' = add_member(session_members, sid, u)
         /\ last' = Call("new_session", sid, u, NoValue, "Ack", stored(votes, sid, u))
         /\ sent' = <<send_message(u, "created", [session_id |-> sid], down)>>
         /\ UNCHANGED <<votes, accepted, revealed, broadcast>>

\* lines 305-328
cb_join(sid, u, down) ==
    LET session == get_session(sessions, sid)
    IN  IF session = None
        THEN Return("join", sid, u, NoValue, "NotFound", <<>>)
        ELSE IF not_open(session)
        THEN Return("join", sid, u, NoValue, "Closed", <<>>)
        ELSE /\ Cardinality(add_member(session_members, sid, u)) <= MaxMemberRows
             /\ session_members' = add_member(session_members, sid, u)
             /\ last' = Call("join", sid, u, NoValue, "Ack", stored(votes, sid, u))
             /\ sent' = <<send_message(u, "keyboard", [session_id |-> sid], down)>>
             /\ broadcast' = IF u \in member_ids(session_members, sid)
                             THEN broadcast ELSE broadcast \ {sid}
             /\ UNCHANGED <<sessions, votes, accepted, revealed>>

\* lines 330-375; edit_ok: whether the edit_text of lines 347-358 succeeds
\* (it is in no try block: when it raises, the handler ends there)
cb_vote(sid, u, value, edit_ok, down) ==
    LET session == get_session(sessions, sid)
        prior == stored(votes, sid, u)
        V1 == set_vote(votes, sid, u, value)
        auto == auto_reveal(sessions, session_members, V1, sid, down)
        changed == IF prior = NoValue THEN broadcast \ {sid} ELSE broadcast
    IN  IF session = None
        THEN Return("vote", sid, u, value, "NotFound", <<>>)
        ELSE IF not_open(session)
        THEN Return("vote", sid, u, value, "Closed", <<>>)
        ELSE /\ Cardinality(V1) <= MaxVoteRows
             /\ votes' = V1
             /\ accepted' = [accepted EXCEPT ![sid][u] = value]
             /\ UNCHANGED <<sessions, session_members>>
             /\ IF ~edit_ok
                THEN /\ last' = Call("vote", sid, u, value, "Exception", prior)
                     /\ sent' = <<>>
                     /\ broadcast' = changed
                     /\ UNCHANGED revealed
                ELSE /\ last' = Call("vote", sid, u, value, "Ack", prior)
                     /\ sent' = vote_sent(sessions, session_members, V1, sid, u, value, down)
                     /\ revealed' = IF auto.text # None THEN revealed \cup {sid} ELSE revealed
                     /\ broadcast' = IF auto.text # None THEN changed \cup {sid} ELSE changed

\* a reveal that deletes the votes it has reported
cb_reveal_clearing(sid, u, down) ==
    LET session == get_session(sessions, sid)
        r == compose_and_broadcast_results(sessions, session_members, votes, sid, down)
    IN  /\ session # None
        /\ ~not_creator(u, session)
        /\ r.text # None
        /\ last' = Call("reveal", sid, u, NoValue, "Ack", stored(votes, sid, u))
        /\ sent' = r.sent
        /\ votes' = clear_votes(votes, sid)
        /\ revealed' = revealed \cup {sid}
        /\ broadcast' = broadcast \cup {sid}
        /\ UNCHANGED <<sessions, session_members, accepted>>

\* lines 377-394
cb_reveal(sid, u, down) ==
    LET session == get_session(sessions, sid)
        r == compose_and_broadcast_results(sessions, session_members, votes, sid, down)
    IN  IF session = None
        THEN Return("reveal", sid, u, NoValue, "NotFound", <<>>)
        ELSE IF not_creator(u, session)
        THEN Return("reveal", sid, u, NoValue, "Forbidden", <<>>)
        ELSE IF r.text = None
        THEN Return("reveal", sid, u, NoValue, "NoVotes", <<>>)
        ELSE /\ last' = Call("reveal", sid, u, NoValue, "Ack", stored(votes, sid, u))
             /\ sent' = r.sent
             /\ revealed' = revealed \cup {sid}
             /\ broadcast' = broadcast \cup {sid}
             /\ UNCHANGED <<sessions, session_members, votes, accepted>>

\* lines 396-415
cb_revote(sid, u, down) ==
    LET session == get_session(sessions, sid)
        members == get_members(session_members, sid)
    IN  IF session = None
        THEN Return("revote", sid, u, NoValue, "NotFound", <<>>)
        ELSE IF not_creator(u, session)
        THEN Return("revote", sid, u, NoValue, "Forbidden", <<>>)
        ELSE /\ votes' = clear_votes(votes, sid)
             /\ accepted' = [accepted EXCEPT ![sid] = [x \in Users |-> NoValue]]
             /\ broadcast' = broadcast \ {sid}
             /\ last' = Call("revote", sid, u, NoValue, "Ack", stored(votes, sid, u))
             /\ sent' = [i \in 1..Len(members) |->
                           send_message(members[i].user_id, "revote", [session_id |-> sid], down)]
             /\ UNCHANGED <<sessions, session_members, revealed>>

\* lines 417-443
cb_members(sid, u) ==
    LET session == get_session(sessions, sid)
        members == get_members(session_members, sid)
    IN  IF session = None
        THEN Return("members", sid, u, NoValue, "NotFound", <<>>)
        ELSE IF not_open(session)
        THEN Return("members", sid, u, NoValue, "Closed", <<>>)
        ELSE IF not_creator(u, session)
        THEN Return("members", sid, u, NoValue, "Forbidden", <<>>)
        ELSE IF members = <<>>
        THEN Return("members", sid, u, NoValue, "Empty", <<>>)
        ELSE Return("members", sid, u, NoValue, "Ack",
                    <<send_message(u, "members",
                        [members |-> [i \in 1..Len(members) |-> members[i].user_id]], {})>>)

\* lines 445-461
cb_info(sid, u) ==
    IF get_session(sessions, sid) = None
    THEN Return("info", sid, u, NoValue, "NotFound", <<>>)
    ELSE Return("info", sid, u, NoValue, "Ack",
                <<send_message(u, "info", [session_id |-> sid, options |-> VOTE_OPTIONS], {})>>)

\* lines 464-497
cmd_export(sid, u) ==
    Return("export_csv", sid, u, NoValue, export_outcome(sessions, sid, u),
           export_reply(sessions, session_members, votes, sid, u))

\* lines 500-515
cmd_close_session(sid, u) ==
    LET session == get_session(sessions, sid)
    IN  IF session = None
        THEN Return("close_session", sid, u, NoValue, "NotFound", <<>>)
        ELSE IF not_creator(u, session)
        THEN Return("close_session", sid, u, NoValue, "Forbidden", <<>>)
        ELSE /\ sessions' = set_session_status(sessions, sid, "closed")
             /\ last' = Call("close_session", sid, u, NoValue, "Ack", stored(votes, sid, u))
             /\ sent' = <<>>
             /\ UNCHANGED <<session_members, votes, accepted, revealed, broadcast>>

\* lines 518-533
cmd_session(sid, u) ==
    IF get_session(sessions, sid) = None
    THEN Return("session", sid, u, NoValue, "NotFound", <<>>)
    ELSE Return("session", sid, u, NoValue, "Ack",
                session_sent(sessions, session_members, votes, sid, u))

\* lines 289-302
cmd_my_sessions(u) ==
    LET rows == {r \in sessions : r.creator_id = u}
    IN  IF rows = {}
        THEN Return("my_sessions", NoValue, u, NoValue, "Empty", <<>>)
        ELSE Return("my_sessions", NoValue, u, NoValue, "Ack",
                    <<send_message(u, "sessions",
                        [sessions |-> {[id |-> r.id, status |-> r.status] : r \in rows}], {})>>)

\* ------------------------------------------------------------------ Next
\* line 541: the handler has returned and polling waits for the next update
start_polling ==
    /\ last # Idle
    /\ last' = Idle
    /\ sent' = <<>>
    /\ UNCHANGED <<sessions, session_members, votes, accepted, revealed, broadcast, tasks>>

\* the handlers of this specification run one at a time, each to its end
OneAtATime == last = Idle /\ UNCHANGED tasks

Next ==
    \/ start_polling
    \/ \E sid \in SessionIds, u \in Users, down \in Downs :
          OneAtATime /\ cmd_new_session(sid, u, down)
    \/ \E sid \in SessionIds, u \in Users, down \in Downs :
          OneAtATime /\ cb_join(sid, u, down)
    \/ \E sid \in SessionIds, u \in Users, value \in CallbackValues,
          edit_ok \in BOOLEAN, down \in Downs :
          OneAtATime /\ cb_vote(sid, u, value, edit_ok, down)
    \/ \E sid \in SessionIds, u \in Users, down \in Downs :
          OneAtATime /\ cb_reveal(sid, u, down)
    \/ \E sid \in SessionIds, u \in Users, down \in Downs :
          OneAtATime /\ cb_revote(sid, u, down)
    \/ \E sid \in SessionIds, u \in Users : OneAtATime /\ cb_members(sid, u)
    \/ \E sid \in SessionIds, u \in Users : OneAtATime /\ cb_info(sid, u)
    \/ \E sid \in SessionIds, u \in Users : OneAtATime /\ cmd_export(sid, u)
    \/ \E sid \in SessionIds, u \in Users : OneAtATime /\ cmd_close_session(sid, u)
    \/ \E sid \in SessionIds, u \in Users : OneAtATime /\ cmd_session(sid, u)
    \/ \E u \in Users : OneAtATime /\ cmd_my_sessions(u)

Spec == Init /\ [][Next]_vars

\* ---------------------------------------------------------------- claims
HasResults(msgs) == \E i \in 1..Len(msgs) : msgs[i].kind = "results"

rows_of(V, sid, u) == {r \in V : r.session_id = sid /\ r.user_id = u}

\* C1: for every session and user there is at most one stored vote, there is
\* one exactly when a vote was accepted since the last reset, and its value is
\* the value of the last accepted vote.
C1_LastVoteWins ==
    \A sid \in SessionIds, u \in Users :
        /\ Cardinality(rows_of(votes, sid, u)) <= 1
        /\ (accepted[sid][u] = NoValue) <=> (rows_of(votes, sid, u) = {})
        /\ \A r \in rows_of(votes, sid, u) : r.value = accepted[sid][u]

\* a re-vote with another value has just overwritten the earlier vote
C1_Witness ==
    /\ last.op = "vote"
    /\ last.outcome = "Ack"
    /\ last.prior \notin {NoValue, last.value}
    /\ rows_of(votes, last.sid, last.uid)
         = {[session_id |-> last.sid, user_id |-> last.uid, value |-> last.value]}

\* C2: a vote triggers the results broadcast only when the set of voters of
\* the session equals the set of its members.
C2_AutoRevealOnlyWhenSetsEqual ==
    (last.op = "vote" /\ HasResults(sent))
        => voter_ids(votes, last.sid) = member_ids(session_members, last.sid)

\* C3: once the voters of a session equal its members and the results were
\* broadcast, a vote (here: one with another value) by a user who already
\* has a vote causes no further results broadcast.
C3_NoRebroadcast ==
    [][(/\ last = Idle
        /\ last'.op = "vote"
        /\ last'.prior \notin {NoValue, last'.value}
        /\ last'.sid \in broadcast
        /\ voter_ids(votes, last'.sid) = member_ids(session_members, last'.sid))
       => ~HasResults(sent')]_vars

\* C4: a vote on a closed session fails Closed, a vote on an unknown session
\* fails NotFound; either leaves the votes table as it was and broadcasts no
\* results.
C4_ClosedVoteRejected ==
    [][(last'.op = "vote" /\ (get_session(sessions, last'.sid) = None
                              \/ get_session(sessions, last'.sid).status = "closed"))
       => /\ last'.outcome = (IF get_session(sessions, last'.sid) = None
                              THEN "NotFound" ELSE "Closed")
          /\ votes' = votes
          /\ ~HasResults(sent')]_vars

\* a vote with another value than the stored one was refused on a closed session
C4_Witness ==
    /\ last.op = "vote"
    /\ last.outcome = "Closed"
    /\ last.prior \notin {NoValue, last.value}
    /\ stored(votes, last.sid, last.uid) = last.prior

\* C5: the voters of a session are among its members.
C5_VotersAreMembers ==
    \A sid \in SessionIds :
        voter_ids(votes, sid) \subseteq member_ids(session_members, sid)

\* C6: every stored vote value is one of the card tokens.
C6_StoredValuesAreCards ==
    \A r \in votes : r.value \in Range(VOTE_OPTIONS)

\* C7: a reveal requested by a user who is not the creator fails Forbidden,
\* one requested by the creator of a session without votes fails NoVotes, and
\* neither sends a results message.
C7_RevealRefused ==
    (last.op = "reveal" /\ get_session(sessions, last.sid) # None)
        => LET session == get_session(sessions, last.sid)
           IN  /\ last.uid # session.creator_id
                    => (last.outcome = "Forbidden" /\ sent = <<>>)
               /\ (last.uid = session.creator_id /\ get_votes(votes, last.sid) = <<>>)
                    => (last.outcome = "NoVotes" /\ sent = <<>>)

\* a user who is not the creator asked for the results of a session with votes
C7_Witness ==
    /\ last.op = "reveal"
    /\ last.outcome = "Forbidden"
    /\ get_votes(votes, last.sid) # <<>>

\* the messages among msgs that reach a user other than p, the results
\* broadcast of a reveal left out
Others(msgs, p) ==
    Filter(msgs, {m \in Range(msgs) : m.to # p /\ m.kind # "results"})

\* what the handlers that read the votes table send to requester u about
\* session sid when the table is V: the session details, the export, and the
\* reply to u's vote w
Outputs(V, sid, u, w, down) ==
    session_sent(sessions, session_members, V, sid, u)
    \o export_reply(sessions, session_members, V, sid, u)
    \o IF not_open(get_session(sessions, sid)) THEN <<>>
       ELSE vote_sent(sessions, session_members, set_vote(V, sid, u, w), sid, u, w, down)

ListsMembers(m) ==
    m.kind = "members" \/ (m.kind = "results" /\ m.text.not_voted # <<>>)

\* C9: a members request on an open session by a user who is not its creator
\* fails Forbidden and sends nothing, and no message to a user who is not the
\* creator of the session lists members of it.
C9_RosterOnlyToCreator ==
    get_session(sessions, last.sid) # None =>
        LET session == get_session(sessions, last.sid)
        IN  /\ (last.op = "members" /\ session.status = "open"
                                    /\ last.uid # session.creator_id)
                 => (last.outcome = "Forbidden" /\ sent = <<>>)
            /\ \A i \in 1..Len(sent) :
                 sent[i].to # session.creator_id => ~ListsMembers(sent[i])

\* C10: a reset by the creator leaves no vote of the session, and leaves the
\* other sessions' votes, the memberships and the sessions as they were; a
\* reset by a user who is not the creator fails Forbidden and deletes nothing.
C10_ResetVotesFrame ==
    [][(last'.op = "revote" /\ get_session(sessions, last'.sid) # None)
       => IF last'.uid = get_session(sessions, last'.sid).creator_id
          THEN /\ last'.outcome = "Ack"
               /\ \A r \in votes' : r.session_id # last'.sid
               /\ {r \in votes' : r.session_id # last'.sid}
                    = {r \in votes : r.session_id # last'.sid}
               /\ session_members' = session_members
               /\ sessions' = sessions
          ELSE /\ last'.outcome = "Forbidden"
               /\ votes' = votes]_vars

\* the creator has reset a session in which the creator had voted, while
\* another session holds a vote
C10_Witness ==
    /\ last.op = "revote"
    /\ last.outcome = "Ack"
    /\ last.prior # NoValue
    /\ \E r \in votes : r.session_id # last.sid

\* C11: a session stays stored; a closed session stays closed in every step;
\* a status changes only in a close_session of that session by its creator;
\* and a close_session by another user fails Forbidden and leaves the status.
C11_StatusOneWay ==
    [][\A sid \in SessionIds :
         LET before == get_session(sessions, sid)
             after == get_session(sessions', sid)
         IN  before # None =>
               /\ after # None
               /\ before.status = "closed" => after.status = "closed"
               /\ before.status # after.status
                    => /\ last'.op = "close_session"
                       /\ last'.sid = sid
                       /\ last'.uid = before.creator_id
               /\ (last'.op = "close_session" /\ last'.sid = sid
                                              /\ last'.uid # before.creator_id)
                    => (last'.outcome = "Forbidden" /\ after.status = before.status)]_vars

\* the creator, who holds a vote in it, has closed a session while another
\* session is open
C11_Witness ==
    /\ last.op = "close_session"
    /\ last.outcome = "Ack"
    /\ last.prior # NoValue
    /\ get_session(sessions, last.sid).status = "closed"
    /\ \E s \in sessions : s.status = "open"

\* C12: a join of an open session ends Ack and leaves exactly one membership
\* row of the user in the session, removes no row, and changes nothing when
\* the user was a member; a join of an unknown session ends NotFound, of a
\* closed one Closed, and both leave the memberships as they were.
C12_JoinIdempotent ==
    [][last'.op = "join" =>
         LET session == get_session(sessions, last'.sid)
             mine(M) == {r \in M : r.session_id = last'.sid /\ r.user_id = last'.uid}
         IN  IF session = None
             THEN last'.outcome = "NotFound" /\ session_members' = session_members
             ELSE IF session.status # "open"
             THEN last'.outcome = "Closed" /\ session_members' = session_members
             ELSE /\ last'.outcome = "Ack"
                  /\ Cardinality(mine(session_members')) = 1
                  /\ session_members \subseteq session_members'
                  /\ mine(session_members) # {} => session_members' = session_members]_vars

\* a user has joined a session again: the membership row is older than the
\* newest row of the table, so this join did not insert it
C12_Witness ==
    /\ last.op = "join"
    /\ last.outcome = "Ack"
    /\ \E r \in session_members :
         /\ r.session_id = last.sid
         /\ r.user_id = last.uid
         /\ r.joined_at < Cardinality(session_members)

\* C13: a new_session that ends Ack stores a session that is open and whose
\* creator is the caller; after every step the creator of every stored
\* session is a member of it, no membership row was removed, and no stored
\* session has another creator than before.
C13_CreatorIsMember ==
    [][/\ (last'.op = "new_session" /\ last'.outcome = "Ack")
            => /\ get_session(sessions, last'.sid) = None
               /\ get_session(sessions', last'.sid)
                    = [id |-> last'.sid, creator_id |-> last'.uid, status |-> "open"]
       /\ \A s \in sessions' : s.creator_id \in member_ids(session_members', s.id)
       /\ session_members \subseteq session_members'
       /\ \A s \in sessions :
            /\ get_session(sessions', s.id) # None
            /\ get_session(sessions', s.id).creator_id = s.creator_id]_vars

\* a user has created a second session while the first, closed since, still
\* has its creator as a member
C13_Witness ==
    /\ last.op = "new_session"
    /\ last.outcome = "Ack"
    /\ last.uid \in member_ids(session_members, last.sid)
    /\ \E s \in sessions :
         /\ s.id # last.sid
         /\ s.status = "closed"
         /\ s.creator_id \in member_ids(session_members, s.id)

\* C14: a results broadcast makes one delivery attempt per member of the
\* session, in the order of the members, whichever deliveries fail; and a
\* reveal by the creator of a session with votes ends Ack with that broadcast.
C14_BroadcastReachesAll ==
    LET ms == get_members(session_members, last.sid)
        res == Filter(sent, {m \in Range(sent) : m.kind = "results"})
    IN  /\ (last.op \in {"reveal", "vote"} /\ HasResults(sent))
              => /\ last.outcome = "Ack"
                 /\ [i \in 1..Len(res) |-> res[i].to] = [i \in 1..Len(ms) |-> ms[i].user_id]
        /\ (/\ last.op = "reveal"
            /\ get_session(sessions, last.sid) # None
            /\ get_votes(votes, last.sid) # <<>>
            /\ last.uid = get_session(sessions, last.sid).creator_id)
              => HasResults(sent)

\* a reveal whose delivery to one member failed before the attempt to the next
C14_Witness ==
    /\ last.op = "reveal"
    /\ last.outcome = "Ack"
    /\ \E i, j \in 1..Len(sent) :
         /\ i < j
         /\ sent[i].kind = "results" /\ ~sent[i].ok
         /\ sent[j].kind = "results" /\ sent[j].ok

\* ------------------------------------------------- the results reports
\* A second specification for the report of compose_and_broadcast_results:
\* it starts from the tables a run of the handlers can leave for one session
\* (created by user 1, joined by other users in any order, with any votes,
\* cast by members or not) and applies cb_reveal to them.
Voters == {1, 2, 3, 4}

\* the callback values of the votes: card tokens and the token "7"
ResultValues == {"½", "1", "2", "3", "5", "7", "?"}

\* the orders in which users can have joined a session created by user 1
JoinOrders ==
    {q \in UNION {[1..n -> Voters] : n \in 1..Cardinality(Voters)} :
        /\ q[1] = 1
        /\ \A i, j \in 1..Len(q) : i # j => q[i] # q[j]}

InitResults ==
    /\ sessions = create_session({}, "s1", 1)
    /\ \E q \in JoinOrders :
         session_members = {[session_id |-> "s1", user_id |-> q[i], joined_at |-> i] :
                               i \in 1..Len(q)}
    /\ \E cast \in [Voters -> ResultValues \cup {NoValue}] :
         votes = {[session_id |-> "s1", user_id |-> u, value |-> cast[u]] :
                     u \in {x \in Voters : cast[x] # NoValue}}
    /\ last = Idle
    /\ sent = <<>>
    /\ accepted = NoOne
    /\ revealed = {}
    /\ broadcast = {}
    /\ tasks = <<>>

NextResults ==
    \/ start_polling
    \/ \E u \in Users, down \in Downs : OneAtATime /\ cb_reveal("s1", u, down)

SpecResults == InitResults /\ [][NextResults]_vars

\* C15: in every results report the histogram lists, in the order of the card
\* tokens, exactly the card tokens that some stored vote of the session holds,
\* each with the number of those votes; the total is the number of stored
\* votes and the histogram counts sum to it; the mean and the median are
\* those of the votes whose value is not "?", and are absent when there is
\* no such vote.
C15_ReportCounts ==
    \A i \in 1..Len(sent) :
        sent[i].kind = "results" =>
            LET t == sent[i].text
                vs == get_votes(votes, t.session_id)
                hist == t.lines
                place(opt) == CHOOSE k \in 1..Len(VOTE_OPTIONS) : VOTE_OPTIONS[k] = opt
                plain == Filter(vs, {r \in Range(vs) : r.value # "?"})
                nums == [k \in 1..Len(plain) |-> Halves(plain[k].value)]
            IN  /\ \A k \in 1..Len(hist) :
                     /\ hist[k][1] \in Range(VOTE_OPTIONS)
                     /\ hist[k][2] > 0
                     /\ hist[k][2] = Cardinality({j \in 1..Len(vs) : vs[j].value = hist[k][1]})
                /\ \A k \in 1..(Len(hist) - 1) : place(hist[k][1]) < place(hist[k + 1][1])
                /\ \A opt \in Range(VOTE_OPTIONS) :
                     (\E j \in 1..Len(vs) : vs[j].value = opt)
                        => \E k \in 1..Len(hist) : hist[k][1] = opt
                /\ t.total = Len(vs)
                /\ Sum([k \in 1..Len(hist) |-> hist[k][2]]) = t.total
                /\ t.stats_lines = IF nums = <<>> THEN <<>>
                                   ELSE <<mean(nums), median(nums)>>

\* v is the k-th smallest of the numbers xs: fewer than k are below it and
\* at least k are not above it
IsOrderStat(xs, v, k) ==
    /\ \E j \in 1..Len(xs) : xs[j] = v
    /\ Cardinality({j \in 1..Len(xs) : xs[j] < v}) <= k - 1
    /\ Cardinality({j \in 1..Len(xs) : xs[j] <= v}) >= k

\* C16: the median of a results report (in quarters) is the median of the
\* values of the votes that are not "?", with "½" as one half: for an odd
\* count n the ((n+1)/2)-th smallest value, for an even count the average of
\* the (n/2)-th and the (n/2+1)-th smallest, whichever users hold the values.
C16_MedianIsStandard ==
    \A i \in 1..Len(sent) :
        (sent[i].kind = "results" /\ sent[i].text.stats_lines # <<>>) =>
            LET vs == get_votes(votes, sent[i].text.session_id)
                plain == Filter(vs, {r \in Range(vs) : r.value # "?"})
                xs == [k \in 1..Len(plain) |-> Halves(plain[k].value)]
                n == Len(xs)
                m == sent[i].text.stats_lines[2]
            IN  IF n % 2 = 1
                THEN \E v \in Range(xs) :
                        IsOrderStat(xs, v, (n + 1) \div 2) /\ m = 2 * v
                ELSE \E a, b \in Range(xs) :
                        /\ IsOrderStat(xs, a, n \div 2)
                        /\ IsOrderStat(xs, b, (n \div 2) + 1)
                        /\ m = a + b

\* the report of the votes 5, 1, 3, 2 of users 1 to 4 gives the median 2.5,
\* ten quarters
C16_Witness ==
    /\ last.op = "reveal"
    /\ [u \in Voters |-> stored(votes, "s1", u)] = <<"5", "1", "3", "2">>
    /\ \E i \in 1..Len(sent) :
         sent[i].kind = "results" /\ sent[i].text.stats_lines[2] = 10

\* C17: the roster of non-voters of a results report holds exactly the
\* members of the session without a stored vote, each once, in the order of
\* their joined_at.
C17_RosterInJoinOrder ==
    \A i \in 1..Len(sent) :
        sent[i].kind = "results" =>
            LET sid == sent[i].text.session_id
                roster == sent[i].text.not_voted
                joined(u) == (CHOOSE r \in session_members :
                                 r.session_id = sid /\ r.user_id = u).joined_at
            IN  /\ Range(roster) = member_ids(session_members, sid) \ voter_ids(votes, sid)
                /\ Cardinality(Range(roster)) = Len(roster)
                /\ \A j, k \in 1..Len(roster) :
                     j < k => joined(roster[j]) < joined(roster[k])

\* C18: a step that broadcasts results leaves the sessions and the
\* memberships as they were, and the votes too (but for the one vote stored
\* by the cb_vote that triggered the reveal); a reveal request leaves them in
\* every outcome; and a vote on an open session whose results were broadcast
\* before is stored.
C18_RevealReadOnly ==
    [][/\ (last'.op = "reveal" \/ HasResults(sent'))
            => /\ sessions' = sessions
               /\ session_members' = session_members
               /\ votes' = IF last'.op = "vote"
                           THEN set_vote(votes, last'.sid, last'.uid, last'.value)
                           ELSE votes
       /\ (/\ last'.op = "vote"
           /\ last'.sid \in revealed
           /\ get_session(sessions, last'.sid) # None
           /\ get_session(sessions, last'.sid).status = "open")
            => /\ last'.outcome \in {"Ack", "Exception"}
               /\ stored(votes', last'.sid, last'.uid) = last'.value]_vars

\* after an earlier reveal of a session that is still open, a user without a
\* vote has voted, and no results went out with that vote
C18_Witness ==
    /\ last.op = "vote"
    /\ last.outcome = "Ack"
    /\ last.prior = NoValue
    /\ last.sid \in revealed
    /\ ~HasResults(sent)
    /\ get_session(sessions, last.sid).status = "open"
    /\ stored(votes, last.sid, last.uid) = last.value

\* ------------------------------------------------ concurrent handlers
\* A third specification: start_polling (line 541) handles every update in a
\* task of its own, so handlers interleave at their awaits. One session "s1",
\* created by user 1 and joined by user 2; the updates are one vote of each
\* member and one /close_session of the creator. Every action below is the
\* code of a handler between two awaits; sent collects all messages in the
\* order they are sent.
Requests ==
    [v1 |-> [op |-> "vote", uid |-> 1],
     v2 |-> [op |-> "vote", uid |-> 2],
     c1 |-> [op |-> "close_session", uid |-> 1]]

TaskIds == DOMAIN Requests

\* a task: the next await (pc), the callback value, and the locals session,
\* members, votes of the handler and of compose_and_broadcast_results
Task(t, pc, value) ==
    [op |-> Requests[t].op, uid |-> Requests[t].uid, pc |-> pc, value |-> value,
     outcome |-> NoValue, session |-> None, members |-> {}, votes |-> {},
     text |-> None]

Goto(t, pc) == tasks' = [tasks EXCEPT ![t].pc = pc]

Done(t, outcome) ==
    tasks' = [tasks EXCEPT ![t].pc = "done", ![t].outcome = outcome]

InitConc ==
    /\ sessions = create_session({}, "s1", 1)
    /\ session_members = add_member(add_member({}, "s1", 1), "s1", 2)
    /\ votes = {}
    /\ last = Idle
    /\ sent = <<>>
    /\ accepted = NoOne
    /\ revealed = {}
    /\ broadcast = {}
    /\ tasks = [t \in TaskIds |-> Task(t, "update", NoValue)]

\* the tables and history variables a step does not write
Reads == UNCHANGED <<sessions, session_members, votes, last, accepted, revealed, broadcast>>

\* lines 330-332: the update arrives, callback.answer()
vote_answer(t, value) ==
    /\ tasks[t].op = "vote" /\ tasks[t].pc = "update"
    /\ tasks' = [tasks EXCEPT ![t] = Task(t, "get_session", value)]
    /\ Reads /\ UNCHANGED sent

\* lines 334-340: get_session and the two early returns
vote_get_session(t) ==
    LET session == get_session(sessions, "s1")
    IN  /\ tasks[t].op = "vote" /\ tasks[t].pc = "get_session"
        /\ IF session = None THEN Done(t, "NotFound")
           ELSE IF not_open(session) THEN Done(t, "Closed")
           ELSE tasks' = [tasks EXCEPT ![t].pc = "set_vote", ![t].session = session]
        /\ Reads /\ UNCHANGED sent

\* line 342
vote_set_vote(t) ==
    /\ tasks[t].op = "vote" /\ tasks[t].pc = "set_vote"
    /\ votes' = set_vote(votes, "s1", tasks[t].uid, tasks[t].value)
    /\ Goto(t, "edit_text")
    /\ UNCHANGED <<sessions, session_members, last, sent, accepted, revealed, broadcast>>

\* lines 345-362: edit_text, which is in no try block, then the test of the
\* status that get_session returned at line 334
vote_edit_text(t, edit_ok) ==
    /\ tasks[t].op = "vote" /\ tasks[t].pc = "edit_text"
    /\ IF ~edit_ok
       THEN Done(t, "Exception") /\ UNCHANGED sent
       ELSE /\ sent' = Append(sent, send_message(tasks[t].uid, "confirm",
                                                 [value |-> tasks[t].value], {}))
            /\ IF tasks[t].session.status = "open"
               THEN Goto(t, "get_members")
               ELSE Done(t, "Ack")
    /\ Reads

\* line 363
vote_get_members(t) ==
    /\ tasks[t].op = "vote" /\ tasks[t].pc = "get_members"
    /\ tasks' = [tasks EXCEPT ![t].pc = "get_votes",
                              ![t].members = {r \in session_members : r.session_id = "s1"}]
    /\ Reads /\ UNCHANGED sent

\* lines 364-366: get_votes and the completeness test on the two locals
vote_get_votes(t) ==
    LET vs == {r \in votes : r.session_id = "s1"}
    IN  /\ tasks[t].op = "vote" /\ tasks[t].pc = "get_votes"
        /\ IF all_voted(tasks[t].members, vs, "s1")
           THEN tasks' = [tasks EXCEPT ![t].pc = "compose", ![t].votes = vs]
           ELSE Done(t, "Ack")
        /\ Reads /\ UNCHANGED sent

\* line 148, in compose_and_broadcast_results
compose_get_session(t) ==
    /\ tasks[t].op = "vote" /\ tasks[t].pc = "compose"
    /\ IF get_session(sessions, "s1") = None
       THEN Done(t, "Ack")
       ELSE Goto(t, "compose_get_votes")
    /\ Reads /\ UNCHANGED sent

\* line 151
compose_get_votes(t) ==
    /\ tasks[t].op = "vote" /\ tasks[t].pc = "compose_get_votes"
    /\ tasks' = [tasks EXCEPT ![t].pc = "compose_get_members",
                              ![t].votes = {r \in votes : r.session_id = "s1"}]
    /\ Reads /\ UNCHANGED sent

\* lines 152-200: get_members, the return of None without votes, result_text
compose_get_members(t) ==
    LET ms == {r \in session_members : r.session_id = "s1"}
    IN  /\ tasks[t].op = "vote" /\ tasks[t].pc = "compose_get_members"
        /\ IF tasks[t].votes = {}
           THEN Done(t, "Ack")
           ELSE tasks' = [tasks EXCEPT
                            ![t].pc = "broadcast",
                            ![t].members = ms,
                            ![t].text = result_text("s1", ByUserId(ms), ByUserId(tasks[t].votes))]
        /\ Reads /\ UNCHANGED sent

\* lines 202-213: the loop of sends, taken as one step
compose_broadcast(t, down) ==
    /\ tasks[t].op = "vote" /\ tasks[t].pc = "broadcast"
    /\ sent' = sent \o broadcast_results(ByUserId(tasks[t].members), tasks[t].text, down)
    /\ Goto(t, "notify")
    /\ Reads

\* lines 367-373: the notice to the facilitator
vote_notify(t, down) ==
    /\ tasks[t].op = "vote" /\ tasks[t].pc = "notify"
    /\ sent' = Append(sent, send_message(tasks[t].session.creator_id, "auto_reveal",
                                         [session_id |-> "s1"], down))
    /\ Done(t, "Ack")
    /\ Reads

\* lines 500-513: the update arrives, get_session and the early returns
close_get_session(t) ==
    LET session == get_session(sessions, "s1")
    IN  /\ tasks[t].op = "close_session" /\ tasks[t].pc = "update"
        /\ IF session = None THEN Done(t, "NotFound")
           ELSE IF not_creator(tasks[t].uid, session) THEN Done(t, "Forbidden")
           ELSE tasks' = [tasks EXCEPT ![t].pc = "set_session_status", ![t].session = session]
        /\ Reads /\ UNCHANGED sent

\* line 514
close_set_session_status(t) ==
    /\ tasks[t].op = "close_session" /\ tasks[t].pc = "set_session_status"
    /\ sessions' = set_session_status(sessions, "s1", "closed")
    /\ Goto(t, "reply")
    /\ UNCHANGED <<session_members, votes, last, sent, accepted, revealed, broadcast>>

\* line 515
close_reply(t) ==
    /\ tasks[t].op = "close_session" /\ tasks[t].pc = "reply"
    /\ sent' = Append(sent, send_message(tasks[t].uid, "closed", [session_id |-> "s1"], {}))
    /\ Done(t, "Ack")
    /\ Reads

NextConc ==
    \/ \E t \in TaskIds, value \in CallbackValues : vote_answer(t, value)
    \/ \E t \in TaskIds : vote_get_session(t)
    \/ \E t \in TaskIds : vote_set_vote(t)
    \/ \E t \in TaskIds, edit_ok \in BOOLEAN : vote_edit_text(t, edit_ok)
    \/ \E t \in TaskIds : vote_get_members(t)
    \/ \E t \in TaskIds : vote_get_votes(t)
    \/ \E t \in TaskIds : compose_get_session(t)
    \/ \E t \in TaskIds : compose_get_votes(t)
    \/ \E t \in TaskIds : compose_get_members(t)
    \/ \E t \in TaskIds, down \in Downs : compose_broadcast(t, down)
    \/ \E t \in TaskIds, down \in Downs : vote_notify(t, down)
    \/ \E t \in TaskIds : close_get_session(t)
    \/ \E t \in TaskIds : close_set_session_status(t)
    \/ \E t \in TaskIds : close_reply(t)

SpecConc == InitConc /\ [][NextConc]_vars

\* the messages of kind k to user u among sent
Count(k, u) == Cardinality({i \in 1..Len(sent) : sent[i].kind = k /\ sent[i].to = u})

\* C19: when each of the two members sends one vote, the results are
\* broadcast at most once (a member gets at most one results message) and
\* the facilitator gets at most one notice, however the two requests and the
\* close request interleave.
C19_AutoRevealOnce ==
    /\ \A u \in Users : Count("results", u) <= 1
    /\ Count("auto_reveal", 1) <= 1

\* C20: under any interleaving, a step that writes the votes table finds the
\* stored status of the session open.
C20_NoVoteAfterClose ==
    [][votes' # votes => get_session(sessions, "s1").status = "open"]_vars

\* C21: a cb_vote that stores a vote in an open session, after which every
\* member of the session has a vote, broadcasts the results in that same
\* request, whether or not the confirmation to the voter was delivered.
C21_CheckAfterEveryVote ==
    [][(/\ last'.op = "vote"
        /\ last'.outcome \in {"Ack", "Exception"}
        /\ stored(votes', last'.sid, last'.uid) = last'.value
        /\ member_ids(session_members', last'.sid) # {}
        /\ member_ids(session_members', last'.sid) \subseteq voter_ids(votes', last'.sid))
       => HasResults(sent')]_vars

\* C22: a request passes from its completeness test to
\* compose_and_broadcast_results, and so to the results broadcast and the
\* notice to the facilitator, only while the stored status of the session is
\* open.
C22_RevealOnlyWhileOpen ==
    [][\A t \in TaskIds :
          (tasks[t].pc = "get_votes" /\ tasks'[t].pc = "compose")
             => get_session(sessions, "s1").status = "open"]_vars

====
